---- MODULE Spec2Model ----
(***************************************************************************)
(* Model of the ulauncher zoxide extension (main.py).                      *)
(*                                                                         *)
(* Python strings are sequences of one-character strings.  The extension   *)
(* object holds max_results, command_on_select and preferences; the host   *)
(* delivers one event at a time (single-threaded), and each handler runs   *)
(* to completion.  The variables event, calls, returned and logged record  *)
(* the last delivered event and what its handler did.                      *)
(***************************************************************************)
EXTENDS Integers, Sequences, FiniteSets, TLC

VARIABLES max_results, command_on_select, preferences,
          event, calls, returned, logged

vars == <<max_results, command_on_select, preferences,
          event, calls, returned, logged>>

\* Largest number of lines zoxide writes to stdout in one query.
MaxLines == 2

-----------------------------------------------------------------------------
\* Characters and generic string helpers.

Digits == <<"0", "1", "2", "3", "4", "5", "6", "7", "8", "9">>

DigitChars == {Digits[i] : i \in 1..10}

DigitValue(c) == (CHOOSE i \in 1..10 : Digits[i] = c) - 1

Letters == {"a", "b", "c", "d", "e", "f", "g", "h", "i", "j", "k", "l", "m",
            "n", "o", "p", "q", "r", "s", "t", "u", "v", "w", "x", "y", "z"}

\* str.isspace() for the characters used here.
IsSpace(c) == c \in {" ", "\t", "\n", "\r"}

RECURSIVE Concat(_)
\* "".join(list)
Concat(ss) == IF ss = <<>> THEN <<>> ELSE Head(ss) \o Concat(Tail(ss))

\* needle in hay
Contains(hay, needle) ==
    \E i \in 0..(Len(hay) - Len(needle)) :
        SubSeq(hay, i + 1, i + Len(needle)) = needle

\* The string literals of main.py.
S_zoxide == <<"z", "o", "x", "i", "d", "e">>
S_query == <<"q", "u", "e", "r", "y">>
S_list == <<"-", "-", "l", "i", "s", "t">>
S_add == <<"a", "d", "d">>
S_xdg_open == <<"x", "d", "g", "-", "o", "p", "e", "n">>

-----------------------------------------------------------------------------
\* str.split() without arguments: the runs of non-whitespace characters.

RECURSIVE SplitFrom(_, _, _)
SplitFrom(s, i, word) ==
    IF i > Len(s)
    THEN IF word = <<>> THEN <<>> ELSE <<word>>
    ELSE IF IsSpace(s[i])
         THEN (IF word = <<>> THEN <<>> ELSE <<word>>) \o SplitFrom(s, i + 1, <<>>)
         ELSE SplitFrom(s, i + 1, Append(word, s[i]))

\* Mutant: str.split(" "), which cuts at every single space and keeps the
\* empty strings between separators.
RECURSIVE SplitAtSpaces(_, _, _)
SplitAtSpaces(s, i, word) ==
    IF i > Len(s) THEN <<word>>
    ELSE IF s[i] = " " THEN <<word>> \o SplitAtSpaces(s, i + 1, <<>>)
    ELSE SplitAtSpaces(s, i + 1, Append(word, s[i]))

Split_AtSingleSpaces(s) == SplitAtSpaces(s, 1, <<>>)

Split(s) == SplitFrom(s, 1, <<>>)

\* str.splitlines(): a line ends at a line boundary; a last line without a
\* terminator is kept, and no empty line follows a final terminator.
RECURSIVE SplitLinesFrom(_, _, _)
SplitLinesFrom(s, i, line) ==
    IF i > Len(s)
    THEN IF line = <<>> THEN <<>> ELSE <<line>>
    ELSE IF s[i] = "\n"
         THEN <<line>> \o SplitLinesFrom(s, i + 1, <<>>)
         ELSE SplitLinesFrom(s, i + 1, Append(line, s[i]))

SplitLines(s) == SplitLinesFrom(s, 1, <<>>)

\* paths[:n] for a list and any integer n (negative n counts from the end).
SliceTo(list, n) ==
    IF n >= 0
    THEN SubSeq(list, 1, IF n < Len(list) THEN n ELSE Len(list))
    ELSE SubSeq(list, 1, IF Len(list) + n > 0 THEN Len(list) + n ELSE 0)

-----------------------------------------------------------------------------
\* int(str): surrounding whitespace stripped, an optional sign, then digits
\* with single underscores allowed between digits.  ok = FALSE is ValueError.

RECURSIVE LStrip(_)
LStrip(s) == IF s # <<>> /\ IsSpace(Head(s)) THEN LStrip(Tail(s)) ELSE s

RECURSIVE RStrip(_)
RStrip(s) ==
    IF s # <<>> /\ IsSpace(s[Len(s)]) THEN RStrip(SubSeq(s, 1, Len(s) - 1)) ELSE s

Strip(s) == RStrip(LStrip(s))

RECURSIVE DigitsValue(_, _)
DigitsValue(s, acc) ==
    IF s = <<>> THEN acc
    ELSE IF Head(s) = "_" THEN DigitsValue(Tail(s), acc)
    ELSE DigitsValue(Tail(s), 10 * acc + DigitValue(Head(s)))

IsDigitString(s) ==
    /\ s # <<>>
    /\ \A i \in 1..Len(s) : s[i] \in DigitChars \cup {"_"}
    /\ s[1] # "_" /\ s[Len(s)] # "_"
    /\ \A i \in 1..(Len(s) - 1) : ~(s[i] = "_" /\ s[i + 1] = "_")

ParseInt(str) ==
    LET t == Strip(str)
        signed == t # <<>> /\ Head(t) \in {"+", "-"}
        body == IF signed THEN Tail(t) ELSE t
    IN  IF IsDigitString(body)
        THEN [ok |-> TRUE,
              val |-> IF signed /\ Head(t) = "-"
                      THEN 0 - DigitsValue(body, 0)
                      ELSE DigitsValue(body, 0)]
        ELSE [ok |-> FALSE, val |-> 0]

-----------------------------------------------------------------------------
\* shlex.quote(s): '' for the empty string, s itself when it has only safe
\* characters, otherwise s in single quotes with each ' written as '"'"'.

SafeChars == Letters \cup DigitChars \cup {"@", "%", "+", "=", ":", ",", ".", "/", "-", "_"}

RECURSIVE EscapeQuotes(_)
EscapeQuotes(s) ==
    IF s = <<>> THEN <<>>
    ELSE (IF Head(s) = "'" THEN <<"'", "\"", "'", "\"", "'">> ELSE <<Head(s)>>)
         \o EscapeQuotes(Tail(s))

ShlexQuote(s) ==
    IF s = <<>> THEN <<"'", "'">>
    ELSE IF \A i \in 1..Len(s) : s[i] \in SafeChars THEN s
    ELSE <<"'">> \o EscapeQuotes(s) \o <<"'">>

-----------------------------------------------------------------------------
\* template.format(arg) with one positional argument and no keyword argument.
\* "{{" and "}}" are literal braces; a lone "}" or an unclosed "{" is a
\* ValueError; "{}" takes the next automatic index, "{<digits>}" that index,
\* mixing the two is a ValueError, an index other than 0 is an IndexError and
\* a name is a KeyError.  ok = FALSE stands for any exception.  Templates with
\* conversions or format specs (the characters ! : . [) are outside the
\* alphabet of the model.
\* mode is "none", "auto" or "manual"; nauto is the next automatic index.

FormatFailed == [ok |-> FALSE, val |-> <<>>]

\* Index of the first "}" at or after i, or 0.
ClosingBrace(t, i) ==
    IF \E j \in i..Len(t) : t[j] = "}"
    THEN CHOOSE j \in i..Len(t) : t[j] = "}" /\ \A k \in i..(j - 1) : t[k] # "}"
    ELSE 0

RECURSIVE FormatFrom(_, _, _, _, _, _)
FormatFrom(t, i, arg, mode, nauto, out) ==
    IF i > Len(t) THEN [ok |-> TRUE, val |-> out]
    ELSE IF t[i] = "}"
    THEN IF i < Len(t) /\ t[i + 1] = "}"
         THEN FormatFrom(t, i + 2, arg, mode, nauto, Append(out, "}"))
         ELSE FormatFailed
    ELSE IF t[i] # "{"
    THEN FormatFrom(t, i + 1, arg, mode, nauto, Append(out, t[i]))
    ELSE IF i < Len(t) /\ t[i + 1] = "{"
    THEN FormatFrom(t, i + 2, arg, mode, nauto, Append(out, "{"))
    ELSE LET close == ClosingBrace(t, i + 1)
             name == SubSeq(t, i + 1, close - 1)
         IN  IF close = 0 THEN FormatFailed
             ELSE IF \E k \in 1..Len(name) : name[k] = "{" THEN FormatFailed
             ELSE IF name = <<>>
             THEN IF mode = "manual" \/ nauto # 0 THEN FormatFailed
                  ELSE FormatFrom(t, close + 1, arg, "auto", nauto + 1, out \o arg)
             ELSE IF \A k \in 1..Len(name) : name[k] \in DigitChars
             THEN IF mode = "auto" \/ DigitsValue(name, 0) # 0 THEN FormatFailed
                  ELSE FormatFrom(t, close + 1, arg, "manual", nauto, out \o arg)
             ELSE FormatFailed

Format(template, arg) == FormatFrom(template, 1, arg, "none", 0, <<>>)

-----------------------------------------------------------------------------
\* pathlib.Path on POSIX: a path is a root ("/", "//" or "") and its parts;
\* empty components and "." components are dropped on parsing.

RECURSIVE ComponentsFrom(_, _, _)
ComponentsFrom(s, i, part) ==
    LET keep == IF part = <<>> \/ part = <<".">> THEN <<>> ELSE <<part>>
    IN  IF i > Len(s) THEN keep
        ELSE IF s[i] = "/" THEN keep \o ComponentsFrom(s, i + 1, <<>>)
        ELSE ComponentsFrom(s, i + 1, Append(part, s[i]))

PathRoot(s) ==
    IF s = <<>> \/ s[1] # "/" THEN <<>>
    ELSE IF Len(s) >= 2 /\ s[2] = "/" /\ (Len(s) = 2 \/ s[3] # "/") THEN <<"/", "/">>
    ELSE <<"/">>

Path(s) == [root |-> PathRoot(s), parts |-> ComponentsFrom(s, 1, <<>>)]

RECURSIVE JoinParts(_)
JoinParts(parts) ==
    IF parts = <<>> THEN <<>>
    ELSE IF Len(parts) = 1 THEN parts[1]
    ELSE parts[1] \o <<"/">> \o JoinParts(Tail(parts))

\* str(path)
PathStr(p) ==
    IF p.root = <<>> /\ p.parts = <<>> THEN <<".">> ELSE p.root \o JoinParts(p.parts)

\* path.parents: every proper ancestor of the path.
Parents(p) ==
    {[root |-> p.root, parts |-> SubSeq(p.parts, 1, k)] : k \in 0..(Len(p.parts) - 1)}

\* path.relative_to(other), used only when other is an ancestor of path.
RelativeTo(p, other) ==
    [root |-> <<>>, parts |-> SubSeq(p.parts, Len(other.parts) + 1, Len(p.parts))]

\* Path.home(): the value of $HOME in the host's environment.
HomeDir == <<"/", "h">>

\* Mutant: the home directory matched as a string prefix of the path.
get_display_path_StringPrefix(path_str) ==
    IF Len(path_str) >= Len(HomeDir) /\ SubSeq(path_str, 1, Len(HomeDir)) = HomeDir
    THEN <<"~">> \o SubSeq(path_str, Len(HomeDir) + 1, Len(path_str))
    ELSE path_str

get_display_path(path_str) ==
    LET path == Path(path_str)
        home == Path(HomeDir)
    IN  IF path = home THEN <<"~">>
        ELSE IF home \in Parents(path) THEN <<"~", "/">> \o PathStr(RelativeTo(path, home))
        ELSE PathStr(path)

-----------------------------------------------------------------------------
\* Python values that are told apart by type: a str, None, or the dict
\* {"error": val}.

Str(s) == [type |-> "str", val |-> s]

Dict(v) == [type |-> "dict", val |-> v]

None == [type |-> "NoneType", val |-> <<>>]

S_zoxide_not_found ==
    <<"z", "o", "x", "i", "d", "e", " ", "n", "o", "t", " ", "f", "o", "u", "n", "d">>

\* bool(value)
Truthy(v) == IF v.type = "str" THEN v.val # <<>> ELSE v.type # "NoneType"

-----------------------------------------------------------------------------
\* The inputs the host and the zoxide binary can supply.

Queries == {<<>>, <<" ">>, <<"a">>, <<" ", "a", "\t", " ", "b", "c", " ">>}

\* Lines zoxide can print: the home directory, a directory under it, a
\* sibling of the home directory that has the home path as a string prefix,
\* and a path that needs quoting and ends with a slash.
UnderHome == HomeDir \o <<"/", "a">>

Sibling == HomeDir \o <<"a">>

Unquoted == <<"/", "t", " ", "'", "/">>

Lines == {HomeDir, UnderHome, Unquoted}

LineLists == UNION {[1..n -> Lines] : n \in 0..MaxLines}

\* What zoxide writes to stdout: lines ended by a newline, and some outputs
\* with the sibling directory, with empty lines and without a final newline.
Stdouts ==
    {Concat([i \in 1..Len(ls) |-> ls[i] \o <<"\n">>]) : ls \in LineLists}
    \cup {<<"\n">>,
          Sibling \o <<"\n">> \o UnderHome \o <<"\n">>,
          <<"\n">> \o HomeDir \o <<"\n", "\n">> \o Sibling}

\* What subprocess.run does: it raises, or it completes with a return code.
Completed(code, out, err) ==
    [raises |-> "none", returncode |-> code, stdout |-> out, stderr |-> err]

Raised(exc) == [raises |-> exc, returncode |-> 0, stdout |-> <<>>, stderr |-> <<>>]

RunFailures == {Raised("FileNotFoundError"), Raised("Exception")}

FailedRuns(out) == {Completed(1, out, <<"e", "\n">>), Completed(1, <<>>, <<>>)}

\* Outcomes of `zoxide query`: every outcome for the query "a", and for the
\* other queries a failure of each kind and one successful run.
QueryRuns(query) ==
    IF query = <<"a">>
    THEN RunFailures \cup {Completed(0, out, <<>>) : out \in Stdouts}
                     \cup FailedRuns(HomeDir \o <<"\n">>)
    ELSE RunFailures \cup {Completed(0, HomeDir \o <<"\n">>, <<>>)}
                     \cup FailedRuns(HomeDir \o <<"\n">>)

AddRuns == RunFailures \cup {Completed(0, <<>>, <<>>), Completed(1, <<>>, <<"e">>)}

\* Values of the max_results preference as the host passes them (strings).
MaxResultsValues == {<<"1">>, <<" ", "0">>, <<"-", "1">>, <<"x">>, <<>>}

\* Values of the command_on_select preference.
CommandValues == {S_xdg_open, <<"o", " ", "{", "}">>, <<"{", "1", "}">>, <<>>}

PreferenceIds == {"max_results", "command_on_select", "keyword"}

PreferenceValues(id) ==
    IF id = "max_results" THEN MaxResultsValues
    ELSE IF id = "command_on_select" THEN CommandValues
    ELSE {<<"z">>}

\* {"max_results": m, "command_on_select": c}
Preferences(m, c) ==
    [id \in {"max_results", "command_on_select"} |-> IF id = "max_results" THEN m ELSE c]

\* event.preferences: the dict of the extension's preferences, or an empty
\* dict.
PreferenceDicts ==
    {<<>>,
     Preferences(<<"1">>, <<"o", " ", "{", "}">>),
     Preferences(<<" ", "0">>, S_xdg_open),
     Preferences(<<"-", "1">>, <<"o", " ", "{", "}">>),
     Preferences(<<"x">>, <<"{", "1", "}">>),
     Preferences(<<>>, <<>>)}

\* Data of an ItemEnterEvent: the path of an entry, or something else.
EnterData ==
    {Str(<<>>), Str(HomeDir), Str(Unquoted), None, Dict(<<>>)}

NoRun == Raised("none")

NoEvent ==
    [type |-> "none", query |-> <<>>, run |-> NoRun, id |-> "", new_value |-> <<>>,
     preferences |-> <<>>, data |-> None]

\* What a handler returns to the host: a RenderResultListAction with its
\* items, or nothing.
RenderResultListAction(items) == [action |-> "RenderResultListAction", items |-> items]

NoAction == [action |-> "None", items |-> <<>>]

\* A result item.  kind "hint" is the item named "Type directory search
\* terms...", "not_found" the item "Error: 'zoxide' not found", "no_results"
\* the item "No results matching '%s'" with name holding the text put for %s,
\* and "entry" an ExtensionSmallResultItem for a directory, with name its
\* displayed path.  on_enter is the list of actions run on selection.
Item(kind, name, on_enter) == [kind |-> kind, name |-> name, on_enter |-> on_enter]

Action(action, arg) == [action |-> action, arg |-> arg]

\* A log record: its level, which message it is, and the message argument.
Log(level, msg, arg) == [level |-> level, msg |-> msg, arg |-> arg]

-----------------------------------------------------------------------------
\* ZoxideSearchExtension

Init ==
    /\ max_results = 10
    /\ command_on_select = S_xdg_open
    /\ preferences = <<>>
    /\ event = NoEvent
    /\ calls = <<>>
    /\ returned = NoAction
    /\ logged = <<>>

\* The command line search() runs.
search_cmd(query) == <<S_zoxide, S_query>> \o Split(query) \o <<S_list>>

\* Mutant: the return code of zoxide is not looked at.
search_IgnoresReturnCode(query, run) ==
    IF run.raises = "FileNotFoundError" THEN <<Dict(S_zoxide_not_found)>>
    ELSE IF run.raises # "none" THEN <<>>
    ELSE LET paths == SelectSeq(SplitLines(run.stdout), LAMBDA line : line # <<>>)
             results == SliceTo(paths, max_results)
         IN  [i \in 1..Len(results) |-> Str(results[i])]

\* search(query) when subprocess.run behaves as run.
search(query, run) ==
    IF run.raises = "FileNotFoundError" THEN <<Dict(S_zoxide_not_found)>>
    ELSE IF run.raises # "none" THEN <<>>
    ELSE IF run.returncode # 0 THEN <<>>
    ELSE LET paths == SelectSeq(SplitLines(run.stdout), LAMBDA line : line # <<>>)
             results == SliceTo(paths, max_results)
         IN  [i \in 1..Len(results) |-> Str(results[i])]

search_log(run) ==
    IF run.raises = "FileNotFoundError" THEN <<Log("error", "zoxide command not found", <<>>)>>
    ELSE IF run.raises # "none" THEN <<Log("error", "unexpected error during zoxide query", <<>>)>>
    ELSE IF run.returncode # 0 /\ run.stderr # <<>>
    THEN <<Log("error", "zoxide query failed", Strip(run.stderr))>>
    ELSE <<>>

-----------------------------------------------------------------------------
\* PreferencesLoadListener.on_event

\* dict.update(other)
DictUpdate(d, other) ==
    [k \in DOMAIN d \cup DOMAIN other |-> IF k \in DOMAIN other THEN other[k] ELSE d[k]]

\* int(extension.preferences.get("max_results", 10)) inside try/except ValueError
LoadedMaxResults(prefs) ==
    IF "max_results" \notin DOMAIN prefs THEN 10
    ELSE IF ParseInt(prefs["max_results"]).ok THEN ParseInt(prefs["max_results"]).val
    ELSE 10

\* extension.preferences.get("command_on_select", "xdg-open")
LoadedCommand(prefs) ==
    IF "command_on_select" \in DOMAIN prefs THEN prefs["command_on_select"] ELSE S_xdg_open

PreferencesLoad(event_preferences) ==
    LET prefs == DictUpdate(preferences, event_preferences)
    IN  /\ preferences' = prefs
        /\ max_results' = LoadedMaxResults(prefs)
        /\ command_on_select' = LoadedCommand(prefs)
        /\ logged' = IF "max_results" \in DOMAIN prefs /\ ~ParseInt(prefs["max_results"]).ok
                     THEN <<Log("warning", "Invalid max_results, using default 10",
                                prefs["max_results"])>>
                     ELSE <<>>
        /\ event' = [NoEvent EXCEPT !.type = "PreferencesEvent",
                                    !.preferences = event_preferences]
        /\ calls' = <<>>
        /\ returned' = NoAction

-----------------------------------------------------------------------------
\* PreferencesChangeListener.on_event

\* Mutant: an invalid max_results falls back to the default, as on load.
UpdatedMaxResults_DefaultOnInvalid(id, new_value) ==
    IF id # "max_results" THEN max_results
    ELSE IF ParseInt(new_value).ok THEN ParseInt(new_value).val
    ELSE 10

UpdatedMaxResults(id, new_value) ==
    IF id = "max_results" /\ ParseInt(new_value).ok
    THEN ParseInt(new_value).val
    ELSE max_results

UpdatedCommand(id, new_value) ==
    IF id = "command_on_select" THEN new_value ELSE command_on_select

PreferencesUpdate(id, new_value) ==
    /\ max_results' = UpdatedMaxResults(id, new_value)
    /\ command_on_select' = UpdatedCommand(id, new_value)
    /\ logged' = IF id = "max_results" /\ ~ParseInt(new_value).ok
                 THEN <<Log("warning", "Invalid max_results during update", new_value)>>
                 ELSE <<>>
    /\ event' = [NoEvent EXCEPT !.type = "PreferencesUpdateEvent",
                                !.id = id, !.new_value = new_value]
    /\ calls' = <<>>
    /\ returned' = NoAction
    /\ UNCHANGED preferences

-----------------------------------------------------------------------------
\* KeywordQueryEventListener.on_event

\* The result item for one path, when the command template formats.
Entry(path_str) ==
    LET quoted_path == ShlexQuote(path_str)
        command_string == Format(command_on_select, quoted_path).val
        script_action == Action("RunScriptAction", command_string)
        update_action == Action("ExtensionCustomAction", path_str)
    IN  Item("entry", get_display_path(path_str), <<script_action, update_action>>)

\* Mutant: a path whose command does not format still gets its entry.
Entries_KeepsUnformatted(results) == [i \in 1..Len(results) |-> Entry(results[i].val)]

\* The for loop over results: a path whose command does not format is
\* logged and skipped.
RECURSIVE Entries(_)
Entries(results) ==
    IF results = <<>> THEN <<>>
    ELSE LET path_str == Head(results).val
         IN  (IF Format(command_on_select, ShlexQuote(path_str)).ok
              THEN <<Entry(path_str)>>
              ELSE <<>>) \o Entries(Tail(results))

RECURSIVE EntriesLog(_)
EntriesLog(results) ==
    IF results = <<>> THEN <<>>
    ELSE LET quoted_path == ShlexQuote(Head(results).val)
         IN  (IF Format(command_on_select, quoted_path).ok
              THEN <<>>
              ELSE <<Log("error", "Error formatting command", quoted_path)>>)
             \o EntriesLog(Tail(results))

\* Mutant: no message item when search() returned nothing.
Render_NoMessageWhenEmpty(query, results) ==
    IF results # <<>> /\ results[1].type = "dict" /\ results[1].val = S_zoxide_not_found
    THEN <<Item("not_found", <<>>, <<Action("HideWindowAction", <<>>)>>)>>
    ELSE Entries(results)

\* The items of the RenderResultListAction the handler returns, given what
\* search() returned.
Render(query, results) ==
    IF results # <<>> /\ results[1].type = "dict" /\ results[1].val = S_zoxide_not_found
    THEN <<Item("not_found", <<>>, <<Action("HideWindowAction", <<>>)>>)>>
    ELSE IF results = <<>>
    THEN <<Item("no_results", query, <<Action("HideWindowAction", <<>>)>>)>>
    ELSE Entries(results)

RenderLog(results) ==
    IF results # <<>> /\ results[1].type = "dict" /\ results[1].val = S_zoxide_not_found
    THEN <<Log("error", "Cannot perform search because zoxide was not found", <<>>)>>
    ELSE IF results = <<>> THEN <<>>
    ELSE EntriesLog(results)

KeywordQuery(query, run) ==
    /\ event' = [NoEvent EXCEPT !.type = "KeywordQueryEvent", !.query = query,
                                !.run = IF query = <<>> THEN NoRun ELSE run]
    /\ IF query = <<>>
       THEN /\ returned' = RenderResultListAction(
                               <<Item("hint", <<>>, <<Action("DoNothingAction", <<>>)>>)>>)
            /\ calls' = <<>>
            /\ logged' = <<>>
       ELSE LET results == search(query, run)
            IN  /\ calls' = <<search_cmd(query)>>
                /\ returned' = RenderResultListAction(Render(query, results))
                /\ logged' = search_log(run) \o RenderLog(results)
    /\ UNCHANGED <<max_results, command_on_select, preferences>>

-----------------------------------------------------------------------------
\* ItemEnterEventListener.on_event

\* Mutant: the path is shell-quoted before it is passed to zoxide add.
add_cmd_Quoted(path_str) == <<S_zoxide, S_add, ShlexQuote(path_str)>>

add_cmd(path_str) == <<S_zoxide, S_add, path_str>>

\* The commands the handler runs for the event's data.
EnterCalls(data) ==
    IF ~Truthy(data) \/ data.type # "str" THEN <<>> ELSE <<add_cmd(data.val)>>

EnterLog(data, run) ==
    IF ~Truthy(data) \/ data.type # "str"
    THEN <<Log("warning", "ItemEnterEvent received invalid data", data.val)>>
    ELSE IF run.raises = "FileNotFoundError"
    THEN <<Log("error", "zoxide command not found during add", <<>>)>>
    ELSE IF run.raises # "none"
    THEN <<Log("error", "unexpected error during zoxide add", data.val)>>
    ELSE IF run.returncode # 0
    THEN <<Log("error", "zoxide add failed", data.val)>>
    ELSE <<>>

ItemEnter(data, run) ==
    LET valid == Truthy(data) /\ data.type = "str"
    IN  /\ event' = [NoEvent EXCEPT !.type = "ItemEnterEvent", !.data = data,
                                    !.run = IF valid THEN run ELSE NoRun]
        /\ calls' = EnterCalls(data)
        /\ logged' = EnterLog(data, run)
        /\ returned' = NoAction
        /\ UNCHANGED <<max_results, command_on_select, preferences>>

-----------------------------------------------------------------------------
Next ==
    \/ \E event_preferences \in PreferenceDicts : PreferencesLoad(event_preferences)
    \/ \E id \in PreferenceIds : \E new_value \in PreferenceValues(id) :
           PreferencesUpdate(id, new_value)
    \/ \E query \in Queries : \E run \in QueryRuns(query) : KeywordQuery(query, run)
    \/ \E data \in EnterData : \E run \in AddRuns : ItemEnter(data, run)

Spec == Init /\ [][Next]_vars

-----------------------------------------------------------------------------
\* Vocabulary of the properties.

\* The maximal runs of characters of s outside seps, in order.
RunStarts(s, seps) ==
    {i \in 1..Len(s) : s[i] \notin seps /\ (i = 1 \/ s[i - 1] \in seps)}

RunEnd(s, seps, i) ==
    CHOOSE j \in i..Len(s) :
        /\ \A k \in i..j : s[k] \notin seps
        /\ j = Len(s) \/ s[j + 1] \in seps

Runs(s, seps) ==
    LET starts == RunStarts(s, seps)
    IN  [n \in 1..Cardinality(starts) |->
            LET i == CHOOSE i \in starts : Cardinality({j \in starts : j < i}) = n - 1
            IN  SubSeq(s, i, RunEnd(s, seps, i))]

Whitespace == {" ", "\t", "\n", "\r"}

IsKeywordQuery == event.type = "KeywordQueryEvent"

\* The last event was a keyword query that ran zoxide.
Searched == IsKeywordQuery /\ event.query # <<>>

\* zoxide ran and exited with code 0.
ZoxideSucceeded == Searched /\ event.run.raises = "none" /\ event.run.returncode = 0

\* The paths search() returned for the last keyword query.
FoundPaths ==
    LET results == search(event.query, event.run)
    IN  IF ZoxideSucceeded THEN [i \in 1..Len(results) |-> results[i].val] ELSE <<>>

Items == returned.items

EntryIndexes == {i \in 1..Len(Items) : Items[i].kind = "entry"}

\* The shell command and the custom-action data of the directory entry i.
CommandOf(i) == Items[i].on_enter[1].arg

DataOf(i) == Items[i].on_enter[2].arg

MessageItem(kind, name) ==
    /\ Len(Items) = 1
    /\ Items[1].kind = kind
    /\ Items[1].name = name
    /\ Items[1].on_enter = <<Action("HideWindowAction", <<>>)>>

-----------------------------------------------------------------------------
\* C1: every search whose zoxide run exits with code 0 returns at most
\* max_results paths, whatever integer max_results holds.
C1_TruncationRespectsMaximum ==
    ZoxideSucceeded => Len(search(event.query, event.run)) <= max_results

\* C2: for a non-empty query, when running zoxide raises FileNotFoundError the
\* handler renders exactly the "'zoxide' not found" item; when it raises
\* anything else or exits with a non-zero code the handler renders exactly the
\* "No results matching" item for the query; no directory entry is rendered,
\* whatever zoxide wrote to stdout.
C2_FailuresRenderOneMessage ==
    Searched /\ ~ZoxideSucceeded =>
        /\ returned.action = "RenderResultListAction"
        /\ EntryIndexes = {}
        /\ IF event.run.raises = "FileNotFoundError"
           THEN MessageItem("not_found", <<>>)
           ELSE MessageItem("no_results", event.query)

C2_Witness ==
    /\ Searched
    /\ event.run.raises = "none"
    /\ event.run.returncode # 0
    /\ event.run.stdout # <<>>
    /\ MessageItem("no_results", event.query)

\* C3: the shell command of every rendered directory entry contains the
\* shell-quoted path of the entry, for every command_on_select the extension
\* can hold, the default included.
C3_CommandContainsQuotedPath ==
    IsKeywordQuery =>
        \A i \in EntryIndexes : Contains(CommandOf(i), ShlexQuote(DataOf(i)))

\* C4: in every reachable state max_results is a non-negative integer and
\* command_on_select is a non-empty string.
C4_PreferenceFieldsValid ==
    /\ max_results \in Nat
    /\ command_on_select # <<>>

\* C5: an update of max_results with a value that is not an integer leaves
\* max_results and command_on_select unchanged; an update of command_on_select
\* leaves max_results unchanged; an update of any other preference leaves both
\* unchanged; a load whose max_results is not an integer sets max_results to
\* 10 and still applies the loaded command_on_select.
C5_UpdateKeeps ==
    event'.type = "PreferencesUpdateEvent" =>
        /\ event'.id = "max_results" /\ ParseInt(event'.new_value).ok = FALSE
               => UNCHANGED <<max_results, command_on_select>>
        /\ event'.id = "command_on_select"
               => max_results' = max_results /\ command_on_select' = event'.new_value
        /\ event'.id \notin {"max_results", "command_on_select"}
               => UNCHANGED <<max_results, command_on_select>>

C5_LoadDefaults ==
    /\ event'.type = "PreferencesEvent"
    /\ "max_results" \in DOMAIN event'.preferences
    /\ ParseInt(event'.preferences["max_results"]).ok = FALSE
    => /\ max_results' = 10
       /\ "command_on_select" \in DOMAIN event'.preferences
              => command_on_select' = event'.preferences["command_on_select"]

\* C5: both parts hold of every step of the extension.
C5_MalformedValuesSkipped == [][C5_UpdateKeeps /\ C5_LoadDefaults]_vars

C5_Witness ==
    /\ event.type = "PreferencesUpdateEvent"
    /\ event.id = "max_results"
    /\ event.new_value = <<"x">>
    /\ max_results = 1
    /\ command_on_select = <<"{", "1", "}">>

\* C6: an item-enter event whose data is a non-empty string p runs exactly one
\* command, zoxide add p, with p passed unchanged as one argument; an
\* item-enter event with empty or non-string data runs no command; either way
\* and whatever the add does, max_results and command_on_select are unchanged.
\* The data a rendered entry carries is a line zoxide printed, unquoted.
C6_EnterRecordsSelection ==
    event'.type = "ItemEnterEvent" =>
        /\ UNCHANGED <<max_results, command_on_select>>
        /\ IF event'.data.type = "str" /\ event'.data.val # <<>>
           THEN calls' = << <<S_zoxide, S_add, event'.data.val>> >>
           ELSE calls' = <<>>

C6_EntryCarriesPath ==
    IsKeywordQuery' =>
        \A i \in EntryIndexes' :
            \E n \in 1..Len(Runs(event'.run.stdout, {"\n"})) :
                DataOf(i)' = Runs(event'.run.stdout, {"\n"})[n]

\* C6: both parts hold of every step of the extension.
C6_SelectionsRecorded == [][C6_EnterRecordsSelection /\ C6_EntryCarriesPath]_vars

C6_Witness ==
    /\ event.type = "ItemEnterEvent"
    /\ event.data = Str(Unquoted)
    /\ event.run.returncode # 0
    /\ calls = << <<S_zoxide, S_add, Unquoted>> >>
    /\ max_results = -1

\* C7: the command search() runs is zoxide, query, the maximal runs of
\* non-whitespace characters of the query in their order, then --list; for a
\* query of whitespace only it is zoxide query --list.
C7_QueryWordSplitting ==
    Searched =>
        LET words == Runs(event.query, Whitespace)
        IN  /\ Len(calls) = 1
            /\ calls[1] = <<S_zoxide, S_query>> \o words \o <<S_list>>
            /\ \A n \in 1..Len(words) : words[n] # <<>>
            /\ (\A k \in 1..Len(event.query) : event.query[k] \in Whitespace)
                   => calls[1] = <<S_zoxide, S_query, S_list>>

C7_Witness ==
    /\ Searched
    /\ event.query = <<" ", "a", "\t", " ", "b", "c", " ">>
    /\ calls = << <<S_zoxide, S_query, <<"a">>, <<"b", "c">>, S_list>> >>

\* C8: the name of the entry for a path p is ~ when p is the home directory,
\* ~/ followed by p's path relative to home when home is a proper ancestor of
\* p, and otherwise the path itself, written as pathlib writes it (repeated
\* and trailing slashes dropped), with no tilde put in front; a sibling of
\* home whose string starts with the home path is shown unchanged.
PartsOf(p) == SelectSeq(Runs(p, {"/"}), LAMBDA part : part # <<".">>)

IsAbsolute(p) == p # <<>> /\ p[1] = "/" /\ ~(Len(p) >= 2 /\ p[2] = "/" /\ (Len(p) = 2 \/ p[3] # "/"))

IsHome(p) == IsAbsolute(p) /\ PartsOf(p) = PartsOf(HomeDir)

IsUnderHome(p) ==
    /\ IsAbsolute(p)
    /\ Len(PartsOf(p)) > Len(PartsOf(HomeDir))
    /\ SubSeq(PartsOf(p), 1, Len(PartsOf(HomeDir))) = PartsOf(HomeDir)

HasHomePrefix(p) == Len(p) > Len(HomeDir) /\ SubSeq(p, 1, Len(HomeDir)) = HomeDir

\* p with repeated and trailing slashes and "." components dropped.
NormalForm(p) ==
    IF p # <<>> /\ p[1] = "/" THEN <<"/">> \o JoinParts(PartsOf(p))
    ELSE IF PartsOf(p) = <<>> THEN <<".">>
    ELSE JoinParts(PartsOf(p))

C8_DisplayPathCollapsesHome ==
    IsKeywordQuery =>
        \A i \in EntryIndexes :
            LET p == DataOf(i)
                name == Items[i].name
                parts == PartsOf(p)
            IN  /\ IsHome(p) => name = <<"~">>
                /\ IsUnderHome(p) =>
                       name = <<"~", "/">>
                              \o JoinParts(SubSeq(parts, Len(PartsOf(HomeDir)) + 1, Len(parts)))
                /\ ~IsHome(p) /\ ~IsUnderHome(p) =>
                       /\ name = NormalForm(p)
                       /\ name[1] # "~"
                       /\ p = NormalForm(p) => name = p

C8_Witness ==
    /\ IsKeywordQuery
    /\ \E i \in EntryIndexes : IsUnderHome(DataOf(i)) /\ Items[i].name = <<"~", "/", "a">>
    /\ \E i \in EntryIndexes :
           /\ HasHomePrefix(DataOf(i)) /\ ~IsUnderHome(DataOf(i))
           /\ Items[i].name = DataOf(i)

\* C9: when formatting command_on_select with the quoted path raises, the
\* handler still returns its list, logs an error for that path and renders no
\* entry for it: no command to run and no zoxide-add action.
FormatRaises(p) == ~Format(command_on_select, ShlexQuote(p)).ok

C9_MalformedTemplateReported ==
    ZoxideSucceeded =>
        \A n \in 1..Len(FoundPaths) :
            FormatRaises(FoundPaths[n]) =>
                /\ returned.action = "RenderResultListAction"
                /\ \E k \in 1..Len(logged) :
                       logged[k] = Log("error", "Error formatting command",
                                       ShlexQuote(FoundPaths[n]))
                /\ \A i \in 1..Len(Items) :
                       \A a \in 1..Len(Items[i].on_enter) :
                           /\ Items[i].on_enter[a].action # "RunScriptAction"
                           /\ Items[i].on_enter[a].arg # FoundPaths[n]

C9_Witness ==
    /\ ZoxideSucceeded
    /\ Len(FoundPaths) = 2
    /\ FormatRaises(FoundPaths[1])
    /\ Len(logged) = 2
    /\ Items = <<>>

\* C10 as stated: the list the keyword-query handler returns is never empty,
\* and has a directory entry whenever search() returned paths.
C10_NeverEmptyList ==
    IsKeywordQuery =>
        /\ Len(Items) >= 1
        /\ FoundPaths # <<>> => EntryIndexes # {}

\* C10 as amended: the list is empty exactly when search() returned paths and
\* formatting command_on_select raised for every one of them; otherwise it
\* holds one message item, or one directory entry for each path whose command
\* formatted.
C10_EmptyOnlyIfNoCommandFormats ==
    IsKeywordQuery =>
        /\ returned.action = "RenderResultListAction"
        /\ Items = <<>> <=>
               /\ FoundPaths # <<>>
               /\ \A n \in 1..Len(FoundPaths) : FormatRaises(FoundPaths[n])
        /\ FoundPaths = <<>> => Len(Items) = 1 /\ EntryIndexes = {}
        /\ FoundPaths # <<>> =>
               /\ EntryIndexes = 1..Len(Items)
               /\ Len(Items) =
                      Cardinality({n \in 1..Len(FoundPaths) : ~FormatRaises(FoundPaths[n])})

C10_Witness ==
    /\ IsKeywordQuery
    /\ FoundPaths # <<>>
    /\ Items = <<>>

====
